---- MODULE Spec2Model ----
(***************************************************************************)
(* Model of setup.SecretStores (pkg/commands/compute/setup/secret_store.go) *)
(* Predefined / Configure / Create over a mocked prompt reader, progress   *)
(* sink and API client.  Each loop iteration of the handlers is one        *)
(* action; `trace` records every call on a collaborator in issue order.    *)
(* The text.Break/text.Output lines of Configure write to Stdout only and  *)
(* are not recorded.                                                       *)
(***************************************************************************)
EXTENDS Integers, Sequences, FiniteSets, TLC

VARIABLES Setup, AcceptDefaults, NonInteractive, Progress, required,
          pc, op, calls, ret, todoStores, todoItems, name, key, value, store,
          ri, ii, apiStore, remoteStores, remoteSecrets, remoteLinks, trace,
          limit

vars == <<Setup, AcceptDefaults, NonInteractive, Progress, required,
          pc, op, calls, ret, todoStores, todoItems, name, key, value, store,
          ri, ii, apiStore, remoteStores, remoteSecrets, remoteLinks, trace,
          limit>>

\* ---- bounds ----
\* number of Configure/Create invocations made on one provisioner
MaxCalls == 2
\* number of entries the manifest declares, over all stores
MaxEntries == 2

\* ---- inputs ----
StoreNames == {"s1", "s2"}
ItemKeys == {"k1", "k2"}
\* strings are sequences of characters; <<>> is the empty string
Blank == <<>>
\* literal values a manifest entry may carry
Literals == {Blank, <<"v">>}
\* what the operator may type at the masked prompt
Answers == {Blank, <<" ", "x">>}
ServiceID == "svc"
ServiceVersion == 1
None == "-"

\* the [setup.secret_stores] mapping: name -> items (key -> entry)
\* (a literal is tried on the first key only; the other key never has one)
ItemMaps == {m \in UNION {[ks -> [Value : Literals]] : ks \in SUBSET ItemKeys} :
               \A k \in DOMAIN m : k # "k1" => m[k].Value = Blank}
Declared(S) == UNION {{<<n, k>> : k \in DOMAIN S[n].Items} : n \in DOMAIN S}
Setups == {S \in UNION {[ns -> [Items : ItemMaps]] : ns \in SUBSET StoreNames} :
             Cardinality(Declared(S)) <= MaxEntries}

\* ---- trace events ----
Ev(kind, s, k, id, secret, res) ==
    [call |-> calls, kind |-> kind, store |-> s, item |-> k, id |-> id,
     secret |-> secret, svc |-> None, ver |-> 0, res |-> res]
CallEv(o) == [call |-> calls + 1, kind |-> "Call", store |-> o, item |-> None,
              id |-> 0, secret |-> Blank, svc |-> None, ver |-> 0, res |-> None]
ReturnEv(c, err) == [call |-> c, kind |-> "Return", store |-> None, item |-> None,
                     id |-> 0, secret |-> Blank, svc |-> None, ver |-> 0, res |-> err]
StepEv(what, n) == Ev("Step", what, n, 0, Blank, None)
FailEv == Ev("Fail", None, None, 0, Blank, None)
Res(ok) == IF ok THEN "ok" ELSE "err"

\* state of a newly built provisioner; the caller makes `budget` calls on it
Fresh(budget) ==
    /\ limit = budget
    /\ required = <<>>
    /\ pc = "idle"
    /\ op = None
    /\ calls = 0
    /\ ret = None
    /\ todoStores = {}
    /\ todoItems = {}
    /\ name = None
    /\ key = None
    /\ value = Blank
    /\ store = [Name |-> None, Items |-> <<>>]
    /\ ri = 0
    /\ ii = 0
    /\ apiStore = [ID |-> 0, Name |-> None]
    /\ remoteStores = {}
    /\ remoteSecrets = {}
    /\ remoteLinks = {}
    /\ trace = <<>>

Init ==
    /\ Setup \in Setups
    /\ AcceptDefaults \in BOOLEAN
    /\ NonInteractive \in BOOLEAN
    /\ Progress \in BOOLEAN
    /\ Fresh(MaxCalls)

\* a provisioner built with a Progress attached
InitAttached ==
    /\ Setup \in Setups
    /\ AcceptDefaults \in BOOLEAN
    /\ NonInteractive \in BOOLEAN
    /\ Progress = TRUE
    /\ Fresh(MaxCalls)

\* a provisioner with a Progress attached and at most one declared entry, on
\* which the caller makes one call more
InitRepeat ==
    /\ Setup \in {S \in Setups : Cardinality(Declared(S)) <= 1}
    /\ AcceptDefaults \in BOOLEAN
    /\ NonInteractive \in BOOLEAN
    /\ Progress = TRUE
    /\ Fresh(MaxCalls + 1)

cfgLocals == <<todoStores, todoItems, name, key, value, store>>
crLocals == <<ri, ii, apiStore>>
remote == <<remoteStores, remoteSecrets, remoteLinks>>
inputs == <<Setup, AcceptDefaults, NonInteractive, Progress, limit>>

\* ---- Predefined ----
\* variant: the answer also depends on a mode flag
Predefined_ModeDependent == Cardinality(DOMAIN Setup) > 0 /\ ~NonInteractive

Predefined == Cardinality(DOMAIN Setup) > 0

\* a call of Predefined(): it returns at once and touches nothing; the
\* caller asks while it still has a Configure or Create call to make
PredefinedCall ==
    /\ pc = "idle"
    /\ calls < limit
    /\ op' = "Predefined"
    /\ ret' = IF Predefined THEN "true" ELSE "false"
    /\ UNCHANGED <<inputs, required, pc, calls, cfgLocals, crLocals, remote, trace>>

\* ---- Configure ----
\* variant: only one of the two flags is consulted
PromptGuard_OneFlag == ~AcceptDefaults

\* the guard of the prompting branch
PromptGuard == ~AcceptDefaults /\ ~NonInteractive

RECURSIVE TrimLeft(_)
TrimLeft(v) == IF v # <<>> /\ Head(v) = " " THEN TrimLeft(Tail(v)) ELSE v

\* variant: the answer is trimmed before use
Resolve_Trimmed(interactive, answer) == IF interactive THEN TrimLeft(answer) ELSE Blank

\* value after the resolution block: the prompt answer when prompting,
\* otherwise the zero value of `var value string`
Resolve(interactive, answer) == IF interactive THEN answer ELSE Blank

\* variant: the blank check is missing
IsBlank_NoCheck(v) == FALSE

\* `if value == ""`
IsBlank(v) == v = Blank

\* variant: Configure starts from an empty required list
ConfigureCall_Reset ==
    /\ pc = "idle"
    /\ calls < limit
    /\ calls' = calls + 1
    /\ op' = "Configure"
    /\ ret' = None
    /\ pc' = "cfgStores"
    /\ todoStores' = DOMAIN Setup
    /\ todoItems' = {}
    /\ name' = None
    /\ key' = None
    /\ value' = Blank
    /\ store' = [Name |-> None, Items |-> <<>>]
    /\ trace' = Append(trace, CallEv("Configure"))
    /\ required' = <<>>
    /\ UNCHANGED <<inputs, crLocals, remote>>

ConfigureCall ==
    /\ pc = "idle"
    /\ calls < limit
    /\ calls' = calls + 1
    /\ op' = "Configure"
    /\ ret' = None
    /\ pc' = "cfgStores"
    /\ todoStores' = DOMAIN Setup
    /\ todoItems' = {}
    /\ name' = None
    /\ key' = None
    /\ value' = Blank
    /\ store' = [Name |-> None, Items |-> <<>>]
    /\ trace' = Append(trace, CallEv("Configure"))
    /\ UNCHANGED <<inputs, required, crLocals, remote>>

\* one iteration head of `for name, settings := range s.Setup`;
\* map iteration order is unspecified
ConfigureNextStore ==
    /\ pc = "cfgStores"
    /\ todoStores # {}
    /\ \E n \in todoStores :
         /\ name' = n
         /\ todoStores' = todoStores \ {n}
         /\ store' = [Name |-> n, Items |-> <<>>]
         /\ todoItems' = DOMAIN Setup[n].Items
    /\ pc' = "cfgItems"
    /\ UNCHANGED <<inputs, required, op, calls, ret, key, value, crLocals, remote, trace>>

\* one iteration of `for key, item := range settings.Items`
ConfigureItem ==
    /\ pc = "cfgItems"
    /\ todoItems # {}
    /\ \E k \in todoItems, answer \in Answers, readOk \in BOOLEAN :
         /\ ~PromptGuard => (answer = Blank /\ readOk)
         /\ ~readOk => answer = Blank
         /\ key' = k
         /\ todoItems' = todoItems \ {k}
         /\ LET prompts == IF PromptGuard
                           THEN <<Ev("Prompt", name, k, 0, answer, Res(readOk))>>
                           ELSE <<>>
                v == Resolve(PromptGuard, answer)
            IN  /\ value' = v
                /\ IF ~readOk
                   THEN /\ ret' = "error reading prompt input"
                        /\ pc' = "idle"
                        /\ trace' = trace \o prompts \o <<ReturnEv(calls, "error reading prompt input")>>
                        /\ store' = store
                   ELSE IF IsBlank(v)
                   THEN /\ ret' = "value cannot be blank"
                        /\ pc' = "idle"
                        /\ trace' = trace \o prompts \o <<ReturnEv(calls, "value cannot be blank")>>
                        /\ store' = store
                   ELSE /\ ret' = ret
                        /\ pc' = pc
                        /\ trace' = trace \o prompts
                        /\ store' = [store EXCEPT !.Items = Append(@, [Name |-> k, Secret |-> v])]
    /\ UNCHANGED <<inputs, required, op, calls, todoStores, name, crLocals, remote>>

\* variant: a store without items is dropped
ConfigureAppendStore_SkipEmpty ==
    /\ pc = "cfgItems"
    /\ todoItems = {}
    /\ required' = IF store.Items = <<>> THEN required ELSE Append(required, store)
    /\ pc' = "cfgStores"
    /\ UNCHANGED <<inputs, op, calls, ret, cfgLocals, crLocals, remote, trace>>

\* variant: the store is appended before its items loop has finished
ConfigureAppendStore_Eager ==
    /\ pc = "cfgItems"
    /\ required' = Append(required, store)
    /\ pc' = "cfgStores"
    /\ UNCHANGED <<inputs, op, calls, ret, cfgLocals, crLocals, remote, trace>>

\* s.required = append(s.required, store)
ConfigureAppendStore ==
    /\ pc = "cfgItems"
    /\ todoItems = {}
    /\ required' = Append(required, store)
    /\ pc' = "cfgStores"
    /\ UNCHANGED <<inputs, op, calls, ret, cfgLocals, crLocals, remote, trace>>

ConfigureReturn ==
    /\ pc = "cfgStores"
    /\ todoStores = {}
    /\ ret' = "nil"
    /\ pc' = "idle"
    /\ trace' = Append(trace, ReturnEv(calls, "nil"))
    /\ UNCHANGED <<inputs, required, op, calls, cfgLocals, crLocals, remote>>

\* ---- Create ----
\* variant: Create also refuses to run when nothing was configured
ProgressIsNil_OrUnconfigured == ~Progress \/ required = <<>>

\* variant: the nil check is missing
ProgressIsNil_NoCheck == FALSE

\* `if s.Progress == nil`
ProgressIsNil == ~Progress

\* variant: the error branch does not return
NextPc_NoReturn(ok, cont) == cont

\* `if err != nil { s.Progress.Fail(); return ... }`: where control goes
NextPc(ok, cont) == IF ok THEN cont ELSE "idle"

\* variant: the failure is reported twice
FailReport_Twice(ok) == IF ok THEN <<>> ELSE <<FailEv, FailEv>>

\* variant: the error branch does not report the failure
FailReport_Silent(ok) == <<>>

\* the s.Progress.Fail() of an error branch
FailReport(ok) == IF ok THEN <<>> ELSE <<FailEv>>

\* variant: the error branch deletes the store it was working on
StoresAfterError_Rollback(stores, id) == {st \in stores : st.ID # id}

\* what a failed call's error branch leaves of the remote stores: the
\* branch issues no call, so everything created so far stays
StoresAfterError(stores, id) == stores

\* variant: the loop stops one item early
ItemsDone_OffByOne(i, items) == i >= Len(items)

\* exit test of `for _, item := range secretStore.Items`
ItemsDone(i, items) == i > Len(items)

Abort(ok, err) == IF ok THEN <<>> ELSE FailReport(ok) \o <<ReturnEv(calls, err)>>

\* identifier the API assigns to a newly created secret store
NextID == Cardinality(remoteStores) + 1

CreateCall ==
    /\ pc = "idle"
    /\ calls < limit
    /\ calls' = calls + 1
    /\ op' = "Create"
    /\ IF ProgressIsNil
       THEN /\ ret' = "internal logic error"
            /\ pc' = "idle"
            /\ trace' = trace \o <<CallEv("Create"), ReturnEv(calls + 1, "internal logic error")>>
            /\ UNCHANGED crLocals
       ELSE /\ ret' = None
            /\ pc' = "crStores"
            /\ trace' = Append(trace, CallEv("Create"))
            /\ ri' = 1
            /\ ii' = 0
            /\ apiStore' = [ID |-> 0, Name |-> None]
    /\ UNCHANGED <<inputs, required, cfgLocals, remote>>

\* variant: the result of the first CreateSecretStore is kept for later stores
CreateStoreStep_StaleID ==
    /\ pc = "crStores"
    /\ ri <= Len(required)
    /\ \E ok \in BOOLEAN :
         LET secretStore == required[ri]
             id == IF ok THEN NextID ELSE 0
         IN  /\ trace' = trace
                    \o <<StepEv("store", secretStore.Name),
                         Ev("CreateSecretStore", secretStore.Name, None, id, Blank, Res(ok))>>
                    \o Abort(ok, "error creating secret store")
             /\ remoteStores' = IF ok
                                THEN remoteStores \cup {[ID |-> id, Name |-> secretStore.Name]}
                                ELSE StoresAfterError(remoteStores, 0)
             /\ apiStore' = IF ~ok THEN [ID |-> 0, Name |-> None]
                               ELSE IF apiStore.ID # 0 THEN apiStore
                               ELSE [ID |-> id, Name |-> secretStore.Name]
             /\ ii' = 1
             /\ ret' = IF ok THEN ret ELSE "error creating secret store"
             /\ pc' = NextPc(ok, "crItems")
    /\ UNCHANGED <<inputs, required, op, calls, cfgLocals, ri, remoteSecrets, remoteLinks>>

\* head of one iteration of `for _, secretStore := range s.required`:
\* Step + CreateSecretStore
CreateStoreStep ==
    /\ pc = "crStores"
    /\ ri <= Len(required)
    /\ \E ok \in BOOLEAN :
         LET secretStore == required[ri]
             id == IF ok THEN NextID ELSE 0
         IN  /\ trace' = trace
                    \o <<StepEv("store", secretStore.Name),
                         Ev("CreateSecretStore", secretStore.Name, None, id, Blank, Res(ok))>>
                    \o Abort(ok, "error creating secret store")
             /\ remoteStores' = IF ok
                                THEN remoteStores \cup {[ID |-> id, Name |-> secretStore.Name]}
                                ELSE StoresAfterError(remoteStores, 0)
             /\ apiStore' = IF ok THEN [ID |-> id, Name |-> secretStore.Name]
                               ELSE [ID |-> 0, Name |-> None]
             /\ ii' = 1
             /\ ret' = IF ok THEN ret ELSE "error creating secret store"
             /\ pc' = NextPc(ok, "crItems")
    /\ UNCHANGED <<inputs, required, op, calls, cfgLocals, ri, remoteSecrets, remoteLinks>>

\* one iteration of `for _, item := range secretStore.Items`: Step + CreateSecret
CreateItemStep ==
    /\ pc = "crItems"
    /\ ~ItemsDone(ii, required[ri].Items)
    /\ ii <= Len(required[ri].Items)
    /\ \E ok \in BOOLEAN :
         LET item == required[ri].Items[ii]
         IN  /\ trace' = trace
                    \o <<StepEv("entry", item.Name),
                         Ev("CreateSecret", None, item.Name, apiStore.ID, item.Secret, Res(ok))>>
                    \o Abort(ok, "error creating secret store entry")
             /\ remoteSecrets' = IF ok
                                 THEN remoteSecrets \cup
                                      {[ID |-> apiStore.ID, Name |-> item.Name, Secret |-> item.Secret]}
                                 ELSE remoteSecrets
             /\ remoteStores' = IF ok THEN remoteStores
                                ELSE StoresAfterError(remoteStores, apiStore.ID)
             /\ ii' = IF ok THEN ii + 1 ELSE ii
             /\ ret' = IF ok THEN ret ELSE "error creating secret store entry"
             /\ pc' = NextPc(ok, "crItems")
    /\ UNCHANGED <<inputs, required, op, calls, cfgLocals, ri, apiStore, remoteLinks>>

\* tail of the iteration: Step + CreateResource (the link to the service)
CreateLinkStep ==
    /\ pc = "crItems"
    /\ ItemsDone(ii, required[ri].Items)
    /\ \E ok \in BOOLEAN :
         /\ trace' = trace
                \o <<StepEv("link", required[ri].Name),
                     [Ev("CreateResource", apiStore.Name, None, apiStore.ID, Blank, Res(ok))
                        EXCEPT !.svc = ServiceID, !.ver = ServiceVersion]>>
                \o Abort(ok, "error creating resource link")
         /\ remoteLinks' = IF ok
                           THEN remoteLinks \cup
                                {[ServiceID |-> ServiceID, ServiceVersion |-> ServiceVersion,
                                  Name |-> apiStore.Name, ResourceID |-> apiStore.ID]}
                           ELSE remoteLinks
         /\ remoteStores' = IF ok THEN remoteStores
                            ELSE StoresAfterError(remoteStores, apiStore.ID)
         /\ ri' = IF ok THEN ri + 1 ELSE ri
         /\ ret' = IF ok THEN ret ELSE "error creating resource link"
         /\ pc' = NextPc(ok, "crStores")
    /\ UNCHANGED <<inputs, required, op, calls, cfgLocals, ii, apiStore, remoteSecrets>>

\* variant: a successful Create empties the required list
CreateReturn_Clearing ==
    /\ pc = "crStores"
    /\ ri > Len(required)
    /\ ret' = "nil"
    /\ pc' = "idle"
    /\ trace' = Append(trace, ReturnEv(calls, "nil"))
    /\ required' = <<>>
    /\ UNCHANGED <<inputs, op, calls, cfgLocals, crLocals, remote>>

\* variant: the loop over s.required stops before its last element
CreateReturn_Early ==
    /\ pc = "crStores"
    /\ ri >= Len(required)
    /\ ret' = "nil"
    /\ pc' = "idle"
    /\ trace' = Append(trace, ReturnEv(calls, "nil"))
    /\ UNCHANGED <<inputs, required, op, calls, cfgLocals, crLocals, remote>>

CreateReturn ==
    /\ pc = "crStores"
    /\ ri > Len(required)
    /\ ret' = "nil"
    /\ pc' = "idle"
    /\ trace' = Append(trace, ReturnEv(calls, "nil"))
    /\ UNCHANGED <<inputs, required, op, calls, cfgLocals, crLocals, remote>>

Next ==
    \/ PredefinedCall
    \/ ConfigureCall
    \/ ConfigureNextStore
    \/ ConfigureItem
    \/ ConfigureAppendStore
    \/ ConfigureReturn
    \/ CreateCall
    \/ CreateStoreStep
    \/ CreateItemStep
    \/ CreateLinkStep
    \/ CreateReturn

Spec == Init /\ [][Next]_vars

\* the provisioner as Create requires it, with its Progress attached
SpecAttached == InitAttached /\ [][Next]_vars

\* repeated Configure and Create calls on one provisioner
SpecRepeat == InitRepeat /\ [][Next]_vars

TypeOK ==
    /\ pc \in {"idle", "cfgStores", "cfgItems", "crStores", "crItems"}
    /\ calls \in 0..(MaxCalls + 1)

\* ---- properties ----
Idx == DOMAIN trace
RemoteKinds == {"CreateSecretStore", "CreateSecret", "CreateResource"}
IsRemote(e) == e.kind \in RemoteKinds
InteractiveMode == ~AcceptDefaults /\ ~NonInteractive
NumDeclared(n) == Cardinality(DOMAIN Setup[n].Items)

\* C1: within a Create, a resource's CreateSecretStore succeeds before every
\* CreateSecret for it, and all N CreateSecret calls of a resource with N
\* entries succeed before its single CreateResource (linkage) call.
C1_Ordering ==
    \A j \in Idx :
        /\ trace[j].kind = "CreateSecret" =>
             \E i \in 1..(j - 1) :
                 /\ trace[i].kind = "CreateSecretStore"
                 /\ trace[i].res = "ok"
                 /\ trace[i].call = trace[j].call
                 /\ trace[i].id = trace[j].id
        /\ trace[j].kind = "CreateResource" =>
             /\ \E i \in 1..(j - 1) :
                 /\ trace[i].kind = "CreateSecretStore"
                 /\ trace[i].res = "ok"
                 /\ trace[i].call = trace[j].call
                 /\ trace[i].id = trace[j].id
                 /\ Cardinality({m \in (i + 1)..(j - 1) :
                        /\ trace[m].kind = "CreateSecret"
                        /\ trace[m].id = trace[j].id
                        /\ trace[m].res = "ok"}) = NumDeclared(trace[i].store)
             /\ \A m \in Idx :
                  (m # j /\ trace[m].id = trace[j].id) => trace[m].kind # "CreateResource"
             /\ \A m \in Idx :
                  (m > j /\ trace[m].id = trace[j].id) => trace[m].kind # "CreateSecret"

\* a resource with two entries has been created and linked
C1_Witness ==
    \E j \in Idx :
        /\ trace[j].kind = "CreateResource"
        /\ trace[j].res = "ok"
        /\ NumDeclared(trace[j].store) = 2

\* C2: when a remote call of Create fails, Create returns an error and issues
\* no further remote call; after a failed CreateSecretStore no CreateSecret or
\* CreateResource is issued for that resource.
C2_Abort ==
    \A k \in Idx :
        (IsRemote(trace[k]) /\ trace[k].res = "err") =>
            /\ \A j \in Idx :
                 (j > k /\ trace[j].call = trace[k].call) =>
                     /\ ~IsRemote(trace[j])
                     /\ trace[j].kind = "Return" => trace[j].res \notin {"nil", None}
            /\ \E j \in Idx :
                 /\ j > k
                 /\ trace[j].call = trace[k].call
                 /\ trace[j].kind = "Return"
            /\ trace[k].call = calls => (pc = "idle" /\ ret \notin {"nil", None})

\* a Create was aborted by a failing call while a later resource was pending
C2_Witness ==
    /\ op = "Create"
    /\ pc = "idle"
    /\ ri < Len(required)
    /\ \E k \in Idx : IsRemote(trace[k]) /\ trace[k].res = "err" /\ k > 4

\* C3: a Create call with no Progress attached returns the internal (bug
\* class) error at once, issues no remote call and no progress report, and
\* changes nothing of the provisioner or of the remote side.
C3_NoProgress ==
    [][(calls' = calls + 1 /\ op' = "Create" /\ ~Progress) =>
          /\ ret' = "internal logic error"
          /\ pc' = "idle"
          /\ trace' = trace \o <<CallEv("Create"), ReturnEv(calls + 1, "internal logic error")>>
          /\ UNCHANGED <<required, inputs, remote, cfgLocals, crLocals>>]_vars

\* Create was refused for the missing Progress with a non-empty required list
C3_Witness ==
    /\ ~Progress
    /\ op = "Create"
    /\ ret = "internal logic error"
    /\ Len(required) > 0

\* entries the Configure call in progress (or the last one) has gone through
ProcessedEntries ==
    UNION {{<<n, k>> : k \in {k2 \in DOMAIN Setup[n].Items : n # name \/ k2 \notin todoItems}} :
              n \in DOMAIN Setup \ todoStores}
PromptsOfCall(c) == {j \in Idx : trace[j].kind = "Prompt" /\ trace[j].call = c}
AllItems == UNION {{<<required[i].Name, required[i].Items[m]>> : m \in DOMAIN required[i].Items} :
                     i \in DOMAIN required}
              \cup {<<store.Name, store.Items[m]>> : m \in DOMAIN store.Items}

\* C4: with accept-defaults or non-interactive set, Configure fails with
\* "value cannot be blank" at an entry that has no literal value configured;
\* no entry with an empty value is ever appended or sent to CreateSecret.
C4_NoBlankSecret ==
    /\ \A it \in AllItems : it[2].Secret # Blank
    /\ \A j \in Idx : trace[j].kind = "CreateSecret" => trace[j].secret # Blank
    /\ (/\ ~InteractiveMode
        /\ op = "Configure"
        /\ key # None
        /\ Setup[name].Items[key].Value = Blank)
         => (pc = "idle" /\ ret = "value cannot be blank")

\* Configure, not prompting, has reached an entry without a literal value
C4_Witness ==
    /\ ~InteractiveMode
    /\ op = "Configure"
    /\ key # None
    /\ Setup[name].Items[key].Value = Blank
    /\ ret = "value cannot be blank"

\* C5: in interactive mode an empty answer fails Configure with "value cannot
\* be blank", and a non-empty answer becomes, unchanged, the value of the
\* entry named by the entry key.
C5_InteractiveVerbatim ==
    [][InteractiveMode =>
        /\ \A j \in DOMAIN trace' :
             (trace'[j].kind = "Prompt" /\ trace'[j].res = "ok" /\ trace'[j].secret = Blank) =>
                 /\ j < Len(trace')
                 /\ trace'[j + 1].kind = "Return"
                 /\ trace'[j + 1].call = trace'[j].call
                 /\ trace'[j + 1].res = "value cannot be blank"
        /\ (/\ Len(trace') > Len(trace)
            /\ trace'[Len(trace) + 1].kind = "Prompt"
            /\ trace'[Len(trace) + 1].res = "ok"
            /\ trace'[Len(trace) + 1].secret # Blank)
             => /\ store.Name = trace'[Len(trace) + 1].store
                /\ store' = [store EXCEPT !.Items = Append(@,
                       [Name |-> trace'[Len(trace) + 1].item,
                        Secret |-> trace'[Len(trace) + 1].secret])]
        /\ \A it \in AllItems' :
             \E j \in DOMAIN trace' :
                 /\ trace'[j].kind = "Prompt"
                 /\ trace'[j].res = "ok"
                 /\ trace'[j].store = it[1]
                 /\ trace'[j].item = it[2].Name
                 /\ trace'[j].secret = it[2].Secret]_vars

\* an answer with a leading space has been stored for an entry
C5_Witness ==
    /\ InteractiveMode
    /\ \E i \in DOMAIN required :
         \E m \in DOMAIN required[i].Items : required[i].Items[m].Secret = <<" ", "x">>

\* C6: with accept-defaults or non-interactive set, Configure never reads the
\* prompt; with both clear it reads it exactly once per entry processed and
\* never for a resource itself.
C6_PromptOnlyInteractive ==
    /\ ~InteractiveMode => \A j \in Idx : trace[j].kind # "Prompt"
    /\ \A j \in Idx :
         trace[j].kind = "Prompt" => (trace[j].store \in StoreNames /\ trace[j].item \in ItemKeys)
    /\ (InteractiveMode /\ op = "Configure") =>
         /\ {<<trace[j].store, trace[j].item>> : j \in PromptsOfCall(calls)} = ProcessedEntries
         /\ Cardinality(PromptsOfCall(calls)) = Cardinality(ProcessedEntries)

\* Configure has gone through an entry with non-interactive set and
\* accept-defaults clear
C6_Witness ==
    /\ NonInteractive
    /\ ~AcceptDefaults
    /\ op = "Configure"
    /\ key # None

\* C7 (as claimed): when not prompting, an entry's resolved value is its
\* configured literal value, and Configure does not reject an entry whose
\* literal value is non-empty.
C7_ConfigValueUsed ==
    (/\ ~InteractiveMode
     /\ op = "Configure"
     /\ key # None
     /\ Setup[name].Items[key].Value # Blank)
      => (value = Setup[name].Items[key].Value /\ ret # "value cannot be blank")

\* order in which the manifest declares the stores and the keys of a store
StoreOrder == <<"s1", "s2">>
KeyOrder == <<"k1", "k2">>
Pos(seq, x) == CHOOSE i \in DOMAIN seq : seq[i] = x
NumConfigureBefore(i) ==
    Cardinality({m \in 1..i : trace[m].kind = "Call" /\ trace[m].store = "Configure"})

\* C8 (as claimed): a Create that follows one Configure issues its
\* CreateSecretStore calls in the declaration order of the stores and, for
\* each store, its CreateSecret calls in the declaration order of the keys.
C8_DeclarationOrder ==
    \A i, j \in Idx :
        (i < j /\ trace[i].call = trace[j].call) =>
            /\ (/\ trace[i].kind = "CreateSecretStore"
                /\ trace[j].kind = "CreateSecretStore"
                /\ NumConfigureBefore(i) = 1)
                 => Pos(StoreOrder, trace[i].store) < Pos(StoreOrder, trace[j].store)
            /\ (/\ trace[i].kind = "CreateSecret"
                /\ trace[j].kind = "CreateSecret"
                /\ trace[i].id = trace[j].id)
                 => Pos(KeyOrder, trace[i].item) < Pos(KeyOrder, trace[j].item)

OkCalls(kind) == {j \in Idx : trace[j].kind = kind /\ trace[j].res = "ok"}

\* C9: Create issues only creating calls and never undoes one: at every
\* moment, and so after an abort, the remote side holds exactly the stores,
\* entries and links whose create calls succeeded.
C9_NoRollback ==
    /\ \A j \in Idx :
         trace[j].kind \in {"Call", "Return", "Prompt", "Step", "Fail"} \cup RemoteKinds
    /\ remoteStores =
         {[ID |-> trace[j].id, Name |-> trace[j].store] : j \in OkCalls("CreateSecretStore")}
    /\ remoteSecrets =
         {[ID |-> trace[j].id, Name |-> trace[j].item, Secret |-> trace[j].secret] :
            j \in OkCalls("CreateSecret")}
    /\ remoteLinks =
         {[ServiceID |-> trace[j].svc, ServiceVersion |-> trace[j].ver,
           Name |-> trace[j].store, ResourceID |-> trace[j].id] : j \in OkCalls("CreateResource")}

\* Create aborted at a store's second entry: the store is left with one
\* entry and no link
C9_Witness ==
    /\ op = "Create"
    /\ pc = "idle"
    /\ ret = "error creating secret store entry"
    /\ \E k \in Idx :
         /\ trace[k].kind = "CreateSecret"
         /\ trace[k].res = "err"
         /\ \E st \in remoteStores : st.ID = trace[k].id
         /\ Cardinality({x \in remoteSecrets : x.ID = trace[k].id}) = 1
         /\ \A l \in remoteLinks : l.ResourceID # trace[k].id

RemoteErrors == {"error creating secret store", "error creating secret store entry",
                 "error creating resource link"}
IsErrorReturn(e) == e.kind = "Return" /\ e.res # "nil"

\* C10 (as claimed): every error return of Configure and of Create is
\* preceded by a "fail current step" report.
C10_FailBeforeEveryError ==
    \A j \in Idx : IsErrorReturn(trace[j]) => (j > 1 /\ trace[j - 1].kind = "Fail")

\* C10 (amended): an error return of Create caused by a failed remote call
\* comes right after a "fail current step" report that follows the failed call
\* of the most recently started step; Configure's error returns and Create's
\* missing-Progress error come with no progress report at all.
C10_FailBeforeRemoteError ==
    \A j \in Idx :
        IsErrorReturn(trace[j]) =>
            IF trace[j].res \in RemoteErrors
            THEN /\ j > 3
                 /\ trace[j - 1].kind = "Fail"
                 /\ IsRemote(trace[j - 2])
                 /\ trace[j - 2].res = "err"
                 /\ trace[j - 3].kind = "Step"
                 /\ \A m \in (j - 3)..(j - 1) : trace[m].call = trace[j].call
            ELSE \A m \in Idx :
                     trace[m].call = trace[j].call => trace[m].kind \notin {"Step", "Fail"}

\* a Create has returned the error of a failed linkage call
C10_Witness ==
    /\ op = "Create"
    /\ ret = "error creating resource link"
    /\ trace[Len(trace)].kind = "Return"

\* C12: Predefined returns false for an empty Setup mapping and true for any
\* non-empty one, whatever the mode flags; the call changes nothing of the
\* provisioner, prompts nothing and issues no remote call, and the mapping it
\* reads never changes, so every call returns the same result.
C12_PredefinedPure ==
    [][/\ Setup' = Setup
       /\ op' = "Predefined" =>
            /\ ret' = IF DOMAIN Setup = {} THEN "false" ELSE "true"
            /\ UNCHANGED <<inputs, required, pc, calls, cfgLocals, crLocals, remote, trace>>]_vars

\* Predefined answered true in non-interactive mode after another call had run
C12_Witness ==
    /\ op = "Predefined"
    /\ ret = "true"
    /\ NonInteractive
    /\ calls > 0

\* position of the Call event that opened invocation c
CallIndex(c) == CHOOSE i \in Idx : trace[i].kind = "Call" /\ trace[i].call = c
StoreCreatesBefore(k) ==
    {i \in 1..k : trace[i].kind = "CreateSecretStore" /\ trace[i].call = trace[k].call}
\* the linkage of the first of two provisioned resources failed at k, in the
\* latest call (so that `required` is still the list that Create worked on)
FirstLinkFailed(k) ==
    /\ trace[k].call = calls
    /\ trace[k].kind = "CreateResource"
    /\ trace[k].res = "err"
    /\ Cardinality(StoreCreatesBefore(k)) = 1
    /\ Len(required) = 2

\* C11 (as claimed): when the first of two resources fails at its linkage,
\* no Configure work (no prompt) and no Create work (no remote call) has been
\* or is performed for the second resource.
C11_SecondUntouched ==
    \A k \in Idx :
        FirstLinkFailed(k) =>
            /\ \A j \in Idx :
                 trace[j].kind = "Prompt" =>
                     ~(trace[j].store = required[2].Name /\ trace[j].call < trace[k].call
                         /\ required[1].Name # required[2].Name)
            /\ \A j \in Idx : (j > k /\ trace[j].call = trace[k].call) => ~IsRemote(trace[j])

\* C11 (amended): when the first of two resources fails at its linkage, that
\* Create issues no remote call for the second resource; the second resource
\* is by then fully configured, every prompt for its entries having been
\* answered before the Create began.
C11_SecondNotCreated ==
    \A k \in Idx :
        FirstLinkFailed(k) =>
            /\ \A j \in Idx : (j > k /\ trace[j].call = trace[k].call) => ~IsRemote(trace[j])
            /\ \A j \in Idx :
                 (IsRemote(trace[j]) /\ trace[j].call = trace[k].call) =>
                     trace[j].id \in {0, trace[k].id}
            /\ Len(required[2].Items) = NumDeclared(required[2].Name)
            /\ InteractiveMode =>
                 \A m \in DOMAIN required[2].Items :
                     \E j \in 1..CallIndex(trace[k].call) :
                         /\ trace[j].kind = "Prompt"
                         /\ trace[j].res = "ok"
                         /\ trace[j].store = required[2].Name
                         /\ trace[j].item = required[2].Items[m].Name
                         /\ trace[j].secret = required[2].Items[m].Secret

\* the first resource's linkage failed while a second resource, whose entry
\* had been prompted for, was waiting
C11_Witness ==
    /\ InteractiveMode
    /\ \E k \in Idx : FirstLinkFailed(k) /\ required[2].Items # <<>>

OpOf(c) == trace[CallIndex(c)].store
Returned(c, res) == \E j \in Idx : trace[j].kind = "Return" /\ trace[j].call = c /\ trace[j].res = res
HasReturned(c) == \E j \in Idx : trace[j].kind = "Return" /\ trace[j].call = c
RemoteOf(c) == {j \in Idx : IsRemote(trace[j]) /\ trace[j].call = c}
CallsOf(c, kind) == {j \in RemoteOf(c) : trace[j].kind = kind}
\* invocation c is a Create that came after exactly one Configure, which succeeded
AfterOneGoodConfigure(c) ==
    /\ OpOf(c) = "Create"
    /\ NumConfigureBefore(CallIndex(c)) = 1
    /\ \E d \in 1..(c - 1) : OpOf(d) = "Configure" /\ Returned(d, "nil")

\* C13: a Create whose remote calls all succeed returns success; when it
\* follows one successful Configure it issues, per declared resource, one
\* CreateSecretStore, one CreateSecret per declared entry and one
\* CreateResource, and nothing else: 2R + (number of entries) calls, which for
\* one resource with one entry are resource, entry, linkage in that order.
C13_ExactCalls ==
    \A c \in 1..calls :
        (OpOf(c) = "Create" /\ HasReturned(c)) =>
            /\ (Progress /\ \A j \in RemoteOf(c) : trace[j].res = "ok") => Returned(c, "nil")
            /\ (Returned(c, "nil") /\ AfterOneGoodConfigure(c)) =>
                 /\ \A j \in RemoteOf(c) : trace[j].res = "ok"
                 /\ \A n \in DOMAIN Setup :
                      /\ Cardinality({j \in CallsOf(c, "CreateSecretStore") : trace[j].store = n}) = 1
                      /\ Cardinality({j \in CallsOf(c, "CreateResource") : trace[j].store = n}) = 1
                      /\ \A k \in DOMAIN Setup[n].Items :
                           Cardinality({j \in CallsOf(c, "CreateSecret") :
                               /\ trace[j].item = k
                               /\ \E i \in CallsOf(c, "CreateSecretStore") :
                                    trace[i].store = n /\ trace[i].id = trace[j].id}) = 1
                 /\ Cardinality(RemoteOf(c)) =
                      2 * Cardinality(DOMAIN Setup) + Cardinality(Declared(Setup))
                 /\ (Cardinality(DOMAIN Setup) = 1 /\ Cardinality(Declared(Setup)) = 1) =>
                      \E a, b, d \in RemoteOf(c) :
                          /\ a < b
                          /\ b < d
                          /\ trace[a].kind = "CreateSecretStore"
                          /\ trace[b].kind = "CreateSecret"
                          /\ trace[d].kind = "CreateResource"

\* a Create after one successful Configure of two resources with an entry
\* each has returned success
C13_Witness ==
    \E c \in 1..calls :
        /\ AfterOneGoodConfigure(c)
        /\ Returned(c, "nil")
        /\ Cardinality(DOMAIN Setup) = 2
        /\ \A n \in DOMAIN Setup : NumDeclared(n) = 1

ConfigureErrors == {"value cannot be blank", "error reading prompt input"}

\* C14: Configure returns its error at the first entry whose value is blank
\* or whose prompt read fails; nothing is prompted for or processed after
\* that, the failing resource is not appended, and a resource is appended
\* only when all of its entries have resolved to non-empty values.
C14_FailFast ==
    [][/\ (op' = "Configure" /\ pc = "cfgItems" /\ pc' = "idle") =>
            /\ ret' \in ConfigureErrors
            /\ required' = required
            /\ store' = store
            /\ todoStores' = todoStores
            /\ trace'[Len(trace')] = ReturnEv(calls, ret')
       /\ \A j \in DOMAIN trace' :
            (trace'[j].kind = "Prompt" /\ (trace'[j].res = "err" \/ trace'[j].secret = Blank)) =>
                /\ j < Len(trace')
                /\ trace'[j + 1].kind = "Return"
                /\ trace'[j + 1].call = trace'[j].call
                /\ trace'[j + 1].res = IF trace'[j].res = "err"
                                       THEN "error reading prompt input"
                                       ELSE "value cannot be blank"
                /\ \A m \in (j + 2)..Len(trace') : trace'[m].call # trace'[j].call
       /\ (pc = "idle" /\ calls' = calls) => (required' = required /\ trace' = trace)
       /\ required' # required =>
            /\ required' = Append(required, store)
            /\ todoItems = {}
            /\ Len(store.Items) = NumDeclared(store.Name)
            /\ \A m \in DOMAIN store.Items : store.Items[m].Secret # Blank]_vars

\* Configure failed reading the second entry of a store while another store
\* was still to be visited
C14_Witness ==
    /\ op = "Configure"
    /\ pc = "idle"
    /\ ret = "error reading prompt input"
    /\ store.Items # <<>>
    /\ todoStores # {}

\* the CreateSecretStore calls of the same Create issued before position j
StoreCreatesUpTo(j) ==
    {i \in 1..(j - 1) : trace[i].kind = "CreateSecretStore" /\ trace[i].call = trace[j].call}
Max(S) == CHOOSE x \in S : \A y \in S : y <= x

\* C15: each CreateSecret carries the identifier returned by the
\* CreateSecretStore of the resource being processed, and the linkage carries
\* that identifier and the returned name together with the service id and
\* version; an identifier returned for one resource is never used for another.
C15_OwnIdentifier ==
    /\ \A j \in Idx :
         trace[j].kind \in {"CreateSecret", "CreateResource"} =>
             /\ StoreCreatesUpTo(j) # {}
             /\ LET i == Max(StoreCreatesUpTo(j))
                IN  /\ trace[i].res = "ok"
                    /\ trace[i].id # 0
                    /\ trace[j].id = trace[i].id
                    /\ trace[j].kind = "CreateSecret" =>
                         trace[j].item \in DOMAIN Setup[trace[i].store].Items
                    /\ trace[j].kind = "CreateResource" =>
                         /\ trace[j].store = trace[i].store
                         /\ trace[j].svc = ServiceID
                         /\ trace[j].ver = ServiceVersion
    /\ \A i, j \in OkCalls("CreateSecretStore") : i # j => trace[i].id # trace[j].id

\* an entry has been created for the second store of a Create
C15_Witness ==
    \E j \in OkCalls("CreateSecret") : Cardinality(StoreCreatesUpTo(j)) = 2

\* the Step report that announces remote call e
StepFor(e) ==
    IF e.kind = "CreateSecretStore" THEN <<"store", e.store>>
    ELSE IF e.kind = "CreateSecret" THEN <<"entry", e.item>>
    ELSE <<"link", e.store>>
FailsOf(c) == {j \in Idx : trace[j].kind = "Fail" /\ trace[j].call = c}

\* C16: in Create every remote call comes right after exactly one Step
\* report for that call; Fail is reported once, right after the failing
\* remote call and right before the error return, and never in a Create that
\* returns success.
C16_ProgressProtocol ==
    /\ \A j \in Idx :
         /\ IsRemote(trace[j]) =>
              /\ j > 1
              /\ trace[j - 1].kind = "Step"
              /\ trace[j - 1].call = trace[j].call
              /\ <<trace[j - 1].store, trace[j - 1].item>> = StepFor(trace[j])
              /\ j > 2 => trace[j - 2].kind # "Step"
         /\ trace[j].kind = "Step" => (j < Len(trace) /\ IsRemote(trace[j + 1]))
         /\ (IsRemote(trace[j]) /\ trace[j].res = "err") =>
              (j < Len(trace) /\ trace[j + 1].kind = "Fail")
         /\ trace[j].kind = "Fail" =>
              /\ j > 1
              /\ IsRemote(trace[j - 1])
              /\ trace[j - 1].res = "err"
              /\ j < Len(trace)
              /\ trace[j + 1].kind = "Return"
              /\ trace[j + 1].res \in RemoteErrors
              /\ trace[j + 1].call = trace[j].call
    /\ \A j \in Idx :
         trace[j].kind = "Return" =>
             /\ trace[j].res = "nil" => FailsOf(trace[j].call) = {}
             /\ trace[j].res \in RemoteErrors => Cardinality(FailsOf(trace[j].call)) = 1

\* a Create has failed at the second entry of a store
C16_Witness ==
    /\ op = "Create"
    /\ ret = "error creating secret store entry"
    /\ Cardinality(FailsOf(calls)) = 1
    /\ Cardinality(RemoteOf(calls)) >= 3

\* how many stores Create call c had started up to position j, and how many
\* entries of the current store
StoreNo(c, j) ==
    Cardinality({i \in 1..j : trace[i].kind = "CreateSecretStore" /\ trace[i].call = c})
EntryNo(c, j) ==
    LET last == Max({i \in 1..j : trace[i].kind = "CreateSecretStore" /\ trace[i].call = c})
    IN  Cardinality({i \in last..j : trace[i].kind = "CreateSecret"})

\* C18: Create does not look at whether Configure ran or succeeded: with a
\* Progress attached it works through exactly the required list as it stands,
\* so on a provisioner never configured it issues no remote call and returns
\* success, and after a failed Configure it creates and links exactly the
\* resources that were appended before the failure.
C18_CreateUsesRequiredAsIs ==
    \A c \in 1..calls :
        (OpOf(c) = "Create" /\ Progress) =>
            /\ \A j \in CallsOf(c, "CreateSecretStore") :
                 /\ StoreNo(c, j) <= Len(required)
                 /\ trace[j].store = required[StoreNo(c, j)].Name
            /\ \A j \in CallsOf(c, "CreateSecret") :
                 /\ StoreNo(c, j) \in 1..Len(required)
                 /\ EntryNo(c, j) <= Len(required[StoreNo(c, j)].Items)
                 /\ trace[j].item = required[StoreNo(c, j)].Items[EntryNo(c, j)].Name
                 /\ trace[j].secret = required[StoreNo(c, j)].Items[EntryNo(c, j)].Secret
            /\ \A j \in CallsOf(c, "CreateResource") :
                 /\ StoreNo(c, j) \in 1..Len(required)
                 /\ trace[j].store = required[StoreNo(c, j)].Name
                 /\ EntryNo(c, j) = Len(required[StoreNo(c, j)].Items)
            /\ NumConfigureBefore(CallIndex(c)) = 0 =>
                 /\ RemoteOf(c) = {}
                 /\ HasReturned(c) =>
                      (Returned(c, "nil") /\ trace[CallIndex(c) + 1].kind = "Return")
            /\ (c = calls /\ Returned(c, "nil")) =>
                 /\ Cardinality(CallsOf(c, "CreateSecretStore")) = Len(required)
                 /\ Cardinality(CallsOf(c, "CreateResource")) = Len(required)
                 /\ \A j \in RemoteOf(c) : trace[j].res = "ok"

\* after a Configure that failed at the second of two stores, Create has
\* created and linked the one store that had been appended
C18_Witness ==
    /\ calls = 2
    /\ OpOf(1) = "Configure"
    /\ \E e \in ConfigureErrors : Returned(1, e)
    /\ OpOf(2) = "Create"
    /\ Returned(2, "nil")
    /\ Len(required) = 1
    /\ Cardinality(CallsOf(2, "CreateResource")) = 1

AllStoresEmpty == \A n \in DOMAIN Setup : NumDeclared(n) = 0

\* C20: a declared resource without entries passes Configure in every mode,
\* unprompted and without the blank-value error, and Create issues for it a
\* CreateSecretStore followed directly by the linkage; so with a flag set that
\* suppresses prompting Configure succeeds only if no declared resource has
\* an entry.
C20_EmptyResource ==
    /\ \A j \in OkCalls("CreateSecretStore") :
         (/\ NumDeclared(trace[j].store) = 0
          /\ j < Len(trace)
          /\ trace[j + 1].call = trace[j].call) =>
             /\ trace[j + 1].kind = "Step"
             /\ trace[j + 1].store = "link"
             /\ trace[j + 2].kind = "CreateResource"
             /\ trace[j + 2].id = trace[j].id
    /\ \A j \in Idx : trace[j].kind = "Prompt" => NumDeclared(trace[j].store) > 0
    /\ (op = "Configure" /\ pc = "idle") =>
         /\ ret \in ConfigureErrors => NumDeclared(name) > 0
         /\ AllStoresEmpty => (ret = "nil" /\ PromptsOfCall(calls) = {})
         /\ ret = "nil" =>
              \A n \in DOMAIN Setup :
                  \E i \in DOMAIN required :
                      required[i].Name = n /\ Len(required[i].Items) = NumDeclared(n)
         /\ (~InteractiveMode /\ ret = "nil") => AllStoresEmpty

\* in non-interactive mode two resources without entries have been
\* configured, created and linked
C20_Witness ==
    /\ NonInteractive
    /\ op = "Create"
    /\ ret = "nil"
    /\ Cardinality(DOMAIN Setup) = 2
    /\ Cardinality(CallsOf(calls, "CreateResource")) = 2

\* two Create calls in a row, d right after d - 1, that both returned success
CreateTwice(d) ==
    /\ d > 1
    /\ OpOf(d) = "Create"
    /\ OpOf(d - 1) = "Create"
    /\ Returned(d, "nil")
    /\ Returned(d - 1, "nil")
SameRequest(e, f) ==
    /\ e.kind = f.kind
    /\ e.store = f.store
    /\ e.item = f.item
    /\ e.secret = f.secret

\* a successful Create that follows a successful Create issues the same
\* requests, in the same order
SecondCreateRepeats ==
    \A d \in 1..calls :
        CreateTwice(d) =>
            LET shift == CallIndex(d) - CallIndex(d - 1)
            IN  /\ Cardinality(RemoteOf(d)) = Cardinality(RemoteOf(d - 1))
                /\ \A j \in RemoteOf(d - 1) :
                     /\ j + shift \in RemoteOf(d)
                     /\ SameRequest(trace[j], trace[j + shift])

\* C17 (as claimed): once a Create call has completed nothing provisioned is
\* left in the provisioner, and a second Create issues no remote call.
C17_Discarded ==
    /\ (op = "Create" /\ pc = "idle") => required = <<>>
    /\ \A d \in 1..calls : (d > 1 /\ OpOf(d) = "Create" /\ OpOf(d - 1) = "Create") => RemoteOf(d) = {}

\* C17 (amended): Create reads the required list and leaves it as it is,
\* secret values included, so a second Create on the same provisioner issues
\* the same remote calls again.
C17_RequiredKept ==
    [][/\ op' = "Create" => required' = required
       /\ SecondCreateRepeats']_vars

\* a second successful Create has sent a secret again
C17_Witness ==
    \E d \in 1..calls : CreateTwice(d) /\ CallsOf(d, "CreateSecret") # {}

ConfiguresReturned(res) ==
    {j \in Idx : trace[j].kind = "Return" /\ OpOf(trace[j].call) = "Configure"
                  /\ (res = "any" \/ trace[j].res = res)}
\* every Configure so far has returned, and returned success
AllConfiguresGood ==
    /\ pc \notin {"cfgStores", "cfgItems"}
    /\ ConfiguresReturned("any") = ConfiguresReturned("nil")
CopiesOf(n) == {i \in DOMAIN required : required[i].Name = n}

\* what the required list holds, and what a successful Create then issues,
\* after n successful Configure calls and no failed one
CountsPerName ==
    /\ \A i \in DOMAIN required :
         /\ required[i].Name \in DOMAIN Setup
         /\ Len(required[i].Items) = NumDeclared(required[i].Name)
    /\ AllConfiguresGood =>
         /\ \A n \in DOMAIN Setup :
              Cardinality(CopiesOf(n)) = Cardinality(ConfiguresReturned("nil"))
         /\ (op = "Create" /\ pc = "idle" /\ ret = "nil") =>
              \A n \in DOMAIN Setup :
                  /\ Cardinality({j \in CallsOf(calls, "CreateSecretStore") : trace[j].store = n})
                       = Cardinality(ConfiguresReturned("nil"))
                  /\ Cardinality({j \in CallsOf(calls, "CreateResource") : trace[j].store = n})
                       = Cardinality(ConfiguresReturned("nil"))

\* C19: the required list only grows, by appending; after n successful
\* Configure calls it holds n resources per declared name and a following
\* fully successful Create issues n CreateSecretStore and n CreateResource
\* calls for each declared name.
C19_RequiredGrows ==
    [][/\ Len(required') >= Len(required)
       /\ SubSeq(required', 1, Len(required)) = required
       /\ CountsPerName']_vars

\* after two successful Configure calls a successful Create has created
\* each of two declared stores twice
C19_Witness ==
    /\ AllConfiguresGood
    /\ Cardinality(ConfiguresReturned("nil")) = 2
    /\ Cardinality(DOMAIN Setup) = 2
    /\ op = "Create"
    /\ pc = "idle"
    /\ ret = "nil"
    /\ Cardinality(CallsOf(calls, "CreateSecretStore")) = 4

====
